---- MODULE Spec2Model ----
(***************************************************************************)
(* Model of gemini-file-viewer-py/main.py: a single window showing either  *)
(* a text file or an image, with a recent-files list, zoom and find.       *)
(*                                                                         *)
(* Conventions                                                             *)
(*  - characters and bytes are code points (97 = "a", 10 = newline,        *)
(*    46 = ".", 65533 = U+FFFD); strings are sequences of them;            *)
(*  - an optional value (Python None / empty label) is the empty sequence, *)
(*    a present one a one-element sequence;                                *)
(*  - float zoom factors are fixed-point hundredths (1.0 = 100), a product *)
(*    is rounded to the nearest hundredth;                                 *)
(*  - isVisible() is modelled for the shown main window: a widget is       *)
(*    visible unless hide() was the last of show()/hide() called on it.    *)
(*  - the font's point size is in hundredths of the size of the font the   *)
(*    text view starts with, taken to be that of the system fixed font;    *)
(*  - an event sent to a widget reaches MainWindow.eventFilter only when   *)
(*    installEventFilter was called on that widget.                        *)
(***************************************************************************)
EXTENDS Integers, Sequences, FiniteSets, TLC

VARIABLES
    current_path,   \* MainWindow._current_path
    recents,        \* MainWindow._recents
    recent_menu,    \* the actions of MainWindow.recent_menu
    text_visible,   \* MainWindow.text.isVisible()
    image_visible,  \* MainWindow.image.isVisible()
    text_content,   \* MainWindow.text.toPlainText()
    cursor,         \* MainWindow.text.textCursor(): [anchor, position]
    pix,            \* ImageView._pix
    zoom,           \* ImageView.zoom
    fit_to_window,  \* ImageView.fit_to_window
    chk_fit,        \* MainWindow.chk_fit.isChecked()
    text_zoom,      \* MainWindow.text_zoom
    font_size,      \* MainWindow.text.font().pointSizeF(), in hundredths of the base size
    status,         \* the status bar's message
    find_edit,      \* MainWindow.find_edit.text()
    find_count,     \* MainWindow.find_count.text()
    dialogs,        \* the QMessageBox.critical messages of the latest handler
    last_event,     \* the event handled last, by the name of its handler
    viewport,       \* ImageView.contentsRect().size(), the widget's size: [w, h]
    painted         \* the rectangle the latest ImageView.paintEvent drew

vars == <<current_path, recents, recent_menu, text_visible, image_visible,
          text_content, cursor, pix, zoom, fit_to_window, chk_fit, text_zoom,
          font_size, status, find_edit, find_count, dialogs, last_event,
          viewport, painted>>

----------------------------------------------------------------------------
(* Program constants *)

One == 100

MinImageZoom == 10

MaxImageZoom == 600

MinTextZoom == 60

MaxTextZoom == 300

MaxRecents == 10

\* "png", "jpg", "jpeg", "gif", "bmp", "webp"
IMG_EXTS ==
    { <<112, 110, 103>>, <<106, 112, 103>>, <<106, 112, 101, 103>>,
      <<103, 105, 102>>, <<98, 109, 112>>, <<119, 101, 98, 112>> }

\* the steps 1.1, 1/1.1 (image) and 1.05, 1/1.05 (text) as num/den
ImageStepUp == [num |-> 11, den |-> 10]

ImageStepDown == [num |-> 10, den |-> 11]

TextStepUp == [num |-> 21, den |-> 20]

TextStepDown == [num |-> 20, den |-> 21]

\* the widgets on which __init__ calls installEventFilter(self)
FilteredWidgets == {"text"}

----------------------------------------------------------------------------
(* Bounds of the model *)

\* ids of the paths of the recent-list specification
NPaths == 11

\* paths with an id up to this one are opened and re-opened at any time,
\* the others once each, in ascending order
ReopenMax == 2

\* Ctrl+wheel is explored while the font stays below / above these sizes
FontCapHi == 330

FontCapLo == 55

\* the longest file content of the text specification
MaxTextLen == 3

----------------------------------------------------------------------------
(* Pure helpers *)

Max2(a, b) == IF a >= b THEN a ELSE b

Min2(a, b) == IF a <= b THEN a ELSE b

\* max(lo, min(hi, v))
Clamp(lo, hi, v) == Max2(lo, Min2(hi, v))

\* z * factor on hundredths, rounded to nearest
Times(z, f) == (2 * z * f.num + f.den) \div (2 * f.den)

\* str.lower() on code points
LowerChar(c) == IF c >= 65 /\ c <= 90 THEN c + 32 ELSE c

Lower(s) == [i \in 1..Len(s) |-> LowerChar(s[i])]

\* str.lstrip(".")
RECURSIVE LStripDot(_)
LStripDot(s) ==
    IF s # <<>> /\ Head(s) = 46 THEN LStripDot(Tail(s)) ELSE s

\* path.suffix.lower().lstrip(".")
Ext(path) == LStripDot(Lower(path.suffix))

\* QPixmap.isNull()
IsNull(px) == px.w = 0 /\ px.h = 0

\* bytes.decode("utf-8", errors="replace") on ASCII bytes and bytes that are
\* never valid in UTF-8 (0xF8..0xFF): the latter become U+FFFD
DecodeByte(b) == IF b < 128 THEN b ELSE 65533

Decode(bytes) == [i \in 1..Len(bytes) |-> DecodeByte(bytes[i])]

\* list.remove(p): drops the first occurrence
RECURSIVE Remove(_, _)
Remove(rs, p) ==
    IF rs = <<>> THEN <<>>
    ELSE IF Head(rs) = p THEN Tail(rs)
    ELSE <<Head(rs)>> \o Remove(Tail(rs), p)

InSeq(rs, p) == \E i \in 1..Len(rs) : rs[i] = p

\* rs[-n:]
LastN(rs, n) ==
    IF Len(rs) <= n THEN rs ELSE SubSeq(rs, Len(rs) - n + 1, Len(rs))

Touch_NoRemove(rs, p) == LastN(Append(rs, p), MaxRecents)

Touch_KeepOldest(rs, p) ==
    LET r == Append(IF InSeq(rs, p) THEN Remove(rs, p) ELSE rs, p)
    IN  IF Len(r) <= MaxRecents THEN r ELSE SubSeq(r, 1, MaxRecents)

\* load_path's update of _recents
Touch(rs, p) ==
    LastN(Append(IF InSeq(rs, p) THEN Remove(rs, p) ELSE rs, p), MaxRecents)

Reverse(s) == [i \in 1..Len(s) |-> s[Len(s) + 1 - i]]

PlaceholderEntry == [kind |-> "placeholder", path |-> <<>>]

PathEntry(p) == [kind |-> "path", path |-> <<p>>]

SeparatorEntry == [kind |-> "separator", path |-> <<>>]

ClearEntry == [kind |-> "clear", path |-> <<>>]

\* the menu refresh_recents builds from _recents
RefreshedMenu(rs) ==
    (IF rs = <<>> THEN <<PlaceholderEntry>> ELSE <<>>)
    \o [i \in 1..Len(rs) |-> PathEntry(Reverse(rs)[i])]
    \o <<SeparatorEntry, ClearEntry>>

\* whether needle occurs in text at index i (1-based)
MatchAt(text, needle, i) ==
    /\ i + Len(needle) - 1 <= Len(text)
    /\ \A k \in 1..Len(needle) : text[i + k - 1] = needle[k]

\* str.count(needle) scanning from index i: non-overlapping occurrences
RECURSIVE CountFrom(_, _, _)
CountFrom(text, needle, i) ==
    IF needle = <<>> THEN Len(text) + 2 - i
    ELSE IF i + Len(needle) - 1 > Len(text) THEN 0
    ELSE IF MatchAt(text, needle, i)
         THEN 1 + CountFrom(text, needle, i + Len(needle))
         ELSE CountFrom(text, needle, i + 1)

Count(text, needle) == CountFrom(text, needle, 1)

LineCount_NoTrailing(text) ==
    IF text = <<>> THEN 0
    ELSE Count(text, <<10>>) + (IF text[Len(text)] = 10 THEN 0 ELSE 1)

\* text.count("\n") + 1 if text else 0
LineCount(text) == IF text # <<>> THEN Count(text, <<10>>) + 1 ELSE 0

\* case folding of QTextDocument.find without FindCaseSensitively
FoldedMatchAt(text, needle, i) ==
    /\ i + Len(needle) - 1 <= Len(text)
    /\ \A k \in 1..Len(needle) : LowerChar(text[i + k - 1]) = LowerChar(needle[k])

\* QPlainTextEdit.find(needle) searching forward from 0-based position pos:
\* the 0-based start of the first occurrence at or after pos, or -1
FindFrom(text, needle, pos) ==
    LET hits == { j \in pos..Len(text) : FoldedMatchAt(text, needle, j + 1) }
    IN  IF hits = {} THEN -1
        ELSE CHOOSE j \in hits : \A k \in hits : j <= k

\* QTextCursor.selectionEnd()
SelectionEnd(c) == Max2(c.anchor, c.position)

StartCursor == [anchor |-> 0, position |-> 0]

\* the cursor after find_next's one or two calls of text.find
CursorAfterFind(text, needle, c) ==
    LET first == FindFrom(text, needle, SelectionEnd(c))
        again == FindFrom(text, needle, 0)
    IN  IF first >= 0
        THEN [anchor |-> first, position |-> first + Len(needle)]
        ELSE IF again >= 0
             THEN [anchor |-> again, position |-> again + Len(needle)]
             ELSE StartCursor

----------------------------------------------------------------------------
(* The environment: what the file system and the toolkit hand to a handler *)

NullPix == [w |-> 0, h |-> 0]

ReadError == [ok |-> FALSE, bytes |-> <<>>]

ReadOk(bytes) == [ok |-> TRUE, bytes |-> bytes]

\* str(e) of the RuntimeError raised at a null pixmap
DecodeErrorText == "Failed to load image"

\* str(e) of the OSError of open()/read()
ReadErrorText == "[Errno 2] No such file or directory"

\* photo.JPG, notes
MainPaths ==
    { [id |-> 1, suffix |-> <<46, 74, 80, 71>>],
      [id |-> 2, suffix |-> <<>>] }

\* f1.txt .. fN.txt
ManyPaths == { [id |-> i, suffix |-> <<46, 116, 120, 116>>] : i \in 1..NPaths }

\* "ab ab ab" and "ab\n" followed by a byte that is no UTF-8
FileBytes == { <<97, 98, 32, 97, 98, 32, 97, 98>>, <<97, 98, 10, 255>> }

Pixmaps == { NullPix, [w |-> 400, h |-> 300] }

Reads == { ReadError } \cup { ReadOk(b) : b \in FileBytes }

\* a missing file, and one holding "ab"
SmallReads == { ReadError, ReadOk(<<97, 98>>) }

\* "", "ab"
Needles == { <<>>, <<97, 98>> }

\* the size the layout gives the image view in the window of __init__
InitialViewport == [w |-> 800, h |-> 600]

\* the sizes the user's resizing of the window gives the image view
Viewports == { InitialViewport, [w |-> 100, h |-> 100] }

\* the pixmaps of the paint specification: the two of the examples, one more
\* than ten times wider than a viewport, one more than six times smaller,
\* one whose scaled size is not whole
PaintPixmaps ==
    { [w |-> 400, h |-> 300], [w |-> 1600, h |-> 300], [w |-> 2000, h |-> 100],
      [w |-> 50, h |-> 50], [w |-> 300, h |-> 700] }

----------------------------------------------------------------------------
(* State *)

Init ==
    /\ current_path = <<>>
    /\ recents = <<>>
    /\ recent_menu = <<>>
    /\ text_visible = TRUE
    /\ image_visible = FALSE
    /\ text_content = <<>>
    /\ cursor = StartCursor
    /\ pix = <<>>
    /\ zoom = One
    /\ fit_to_window = FALSE
    /\ chk_fit = FALSE
    /\ text_zoom = One
    /\ font_size = One
    /\ status = <<>>
    /\ find_edit = <<>>
    /\ find_count = <<>>
    /\ dialogs = <<>>
    /\ last_event = "__init__"
    /\ viewport = InitialViewport
    /\ painted = <<>>

----------------------------------------------------------------------------
(* load_path *)

SetImage_KeepZoom(px) ==
    /\ pix' = <<px>>
    /\ UNCHANGED zoom

\* ImageView.set_image
SetImage(px) ==
    /\ pix' = <<px>>
    /\ zoom' = One

ShowImageView_KeepText ==
    /\ UNCHANGED text_visible
    /\ image_visible' = TRUE

\* self.text.hide(); self.image.show()
ShowImageView ==
    /\ text_visible' = FALSE
    /\ image_visible' = TRUE

\* self.text.show(); self.image.hide()
ShowTextView ==
    /\ text_visible' = TRUE
    /\ image_visible' = FALSE

\* the tail of load_path: the recent list, then refresh_recents
UpdateRecents(path) ==
    /\ recents' = Touch(recents, path)
    /\ recent_menu' = RefreshedMenu(recents')

LoadError_HidesText(msg) ==
    /\ dialogs' = <<msg>>
    /\ text_visible' = FALSE
    /\ UNCHANGED <<recents, recent_menu, image_visible, text_content,
                   cursor, pix, zoom, fit_to_window, chk_fit, text_zoom,
                   font_size, status, find_edit, find_count>>

\* the except branch: the modal error dialog, then return
LoadError(msg) ==
    /\ dialogs' = <<msg>>
    /\ UNCHANGED <<recents, recent_menu, text_visible, image_visible, text_content,
                   cursor, pix, zoom, fit_to_window, chk_fit, text_zoom,
                   font_size, status, find_edit, find_count>>

\* the image branch past the null check
LoadImage(path, px) ==
    /\ SetImage(px)
    /\ ShowImageView
    /\ status' = <<[path |-> path, what |-> "px", n |-> px.w, m |-> px.h]>>
    /\ UpdateRecents(path)
    /\ dialogs' = <<>>
    /\ UNCHANGED <<text_content, cursor, fit_to_window, chk_fit, text_zoom,
                   font_size, find_edit, find_count>>

\* the text branch past the read
LoadText(path, text) ==
    /\ text_content' = text
    /\ cursor' = StartCursor
    /\ ShowTextView
    /\ status' = <<[path |-> path, what |-> "lines", n |-> LineCount(text), m |-> 0]>>
    /\ UpdateRecents(path)
    /\ dialogs' = <<>>
    /\ UNCHANGED <<pix, zoom, fit_to_window, chk_fit, text_zoom, font_size,
                   find_edit, find_count>>

\* whether load_path(path) raises, given what QPixmap(path) and open/read return
LoadFails(path, px, rd) ==
    IF Ext(path) \in IMG_EXTS THEN IsNull(px) ELSE ~rd.ok

\* load_path(path), where QPixmap(str(path)) yields px and open/read yields rd
LoadPath(path, px, rd) ==
    /\ current_path' = <<path>>
    /\ last_event' = "load_path"
    /\ IF Ext(path) \in IMG_EXTS
       THEN IF IsNull(px)
            THEN LoadError(DecodeErrorText)
            ELSE LoadImage(path, px)
       ELSE IF ~rd.ok
            THEN LoadError(ReadErrorText)
            ELSE LoadText(path, Decode(rd.bytes))
    /\ UNCHANGED <<viewport, painted>>

\* a triggered path action of the recent menu: load_path(pp)
SelectRecent(i, px, rd) ==
    /\ i \in 1..Len(recent_menu)
    /\ recent_menu[i].kind = "path"
    /\ LoadPath(recent_menu[i].path[1], px, rd)

\* the menu's "Clear Recent Files": self._recents.clear()
ClearRecents ==
    /\ \E i \in 1..Len(recent_menu) : recent_menu[i] = ClearEntry
    /\ recents' = <<>>
    /\ last_event' = "clear_recents"
    /\ dialogs' = <<>>
    /\ UNCHANGED <<current_path, recent_menu, text_visible, image_visible,
                   text_content, cursor, pix, zoom, fit_to_window, chk_fit,
                   text_zoom, font_size, status, find_edit, find_count>>
    /\ UNCHANGED <<viewport, painted>>

\* clear
Clear ==
    /\ current_path' = <<>>
    /\ last_event' = "clear"
    /\ text_content' = <<>>
    /\ cursor' = StartCursor
    /\ text_visible' = FALSE
    /\ image_visible' = FALSE
    /\ status' = <<>>
    /\ dialogs' = <<>>
    /\ UNCHANGED <<recents, recent_menu, pix, zoom, fit_to_window, chk_fit,
                   text_zoom, font_size, find_edit, find_count>>
    /\ UNCHANGED <<viewport, painted>>

----------------------------------------------------------------------------
(* Zoom and fit-to-window *)

ImageZoomStep_NoUpperClamp(z, f) == Max2(MinImageZoom, Times(z, f))

\* max(0.1, min(6.0, zoom * factor))
ImageZoomStep(z, f) == Clamp(MinImageZoom, MaxImageZoom, Times(z, f))

\* max(0.6, min(3.0, text_zoom * factor))
TextZoomStep(z, f) == Clamp(MinTextZoom, MaxTextZoom, Times(z, f))

ToggleFit_ResetsZoom ==
    /\ chk_fit' = ~chk_fit
    /\ last_event' = "toggle_fit"
    /\ fit_to_window' = chk_fit'
    /\ zoom' = One
    /\ dialogs' = <<>>
    /\ UNCHANGED <<current_path, recents, recent_menu, text_visible, image_visible,
                   text_content, cursor, pix, text_zoom, font_size, status,
                   find_edit, find_count>>
    /\ UNCHANGED <<viewport, painted>>

\* the user clicks the "Fit to Window" box: stateChanged runs toggle_fit
ToggleFit ==
    /\ chk_fit' = ~chk_fit
    /\ last_event' = "toggle_fit"
    /\ fit_to_window' = chk_fit'
    /\ dialogs' = <<>>
    /\ UNCHANGED <<current_path, recents, recent_menu, text_visible, image_visible,
                   text_content, cursor, pix, zoom, text_zoom, font_size, status,
                   find_edit, find_count>>
    /\ UNCHANGED <<viewport, painted>>

ZoomImage_KeepFit(f) ==
    /\ IF ~image_visible
       THEN UNCHANGED <<fit_to_window, chk_fit, zoom>>
       ELSE /\ UNCHANGED <<fit_to_window, chk_fit>>
            /\ zoom' = ImageZoomStep(zoom, f)
    /\ last_event' = "zoom_image"
    /\ dialogs' = <<>>
    /\ UNCHANGED <<current_path, recents, recent_menu, text_visible, image_visible,
                   text_content, cursor, pix, text_zoom, font_size, status,
                   find_edit, find_count>>
    /\ UNCHANGED <<viewport, painted>>

ZoomImage_KeepBox(f) ==
    /\ IF ~image_visible
       THEN UNCHANGED <<fit_to_window, chk_fit, zoom>>
       ELSE /\ fit_to_window' = FALSE
            /\ UNCHANGED chk_fit
            /\ zoom' = ImageZoomStep(zoom, f)
    /\ last_event' = "zoom_image"
    /\ dialogs' = <<>>
    /\ UNCHANGED <<current_path, recents, recent_menu, text_visible, image_visible,
                   text_content, cursor, pix, text_zoom, font_size, status,
                   find_edit, find_count>>
    /\ UNCHANGED <<viewport, painted>>

\* zoom_image(factor): "Zoom +", "Zoom -", Ctrl++ and Ctrl+-
ZoomImage(f) ==
    /\ IF ~image_visible
       THEN UNCHANGED <<fit_to_window, chk_fit, zoom>>
       ELSE /\ fit_to_window' = FALSE
            /\ chk_fit' = FALSE
            /\ zoom' = ImageZoomStep(zoom, f)
    /\ last_event' = "zoom_image"
    /\ dialogs' = <<>>
    /\ UNCHANGED <<current_path, recents, recent_menu, text_visible, image_visible,
                   text_content, cursor, pix, text_zoom, font_size, status,
                   find_edit, find_count>>
    /\ UNCHANGED <<viewport, painted>>

\* reset_zoom: "100%" and Ctrl+0
ResetZoom ==
    /\ IF image_visible
       THEN /\ fit_to_window' = FALSE
            /\ chk_fit' = FALSE
            /\ zoom' = One
            /\ UNCHANGED <<text_zoom, font_size>>
       ELSE /\ text_zoom' = One
            /\ font_size' = One
            /\ UNCHANGED <<fit_to_window, chk_fit, zoom>>
    /\ last_event' = "reset_zoom"
    /\ dialogs' = <<>>
    /\ UNCHANGED <<current_path, recents, recent_menu, text_visible, image_visible,
                   text_content, cursor, pix, status, find_edit, find_count>>
    /\ UNCHANGED <<viewport, painted>>

\* eventFilter(obj, ev) for a wheel event with angleDelta().y() = delta,
\* ctrl telling whether the Control modifier is down
EventFilter(obj, delta, ctrl) ==
    IF obj = "image" /\ delta # 0
    THEN /\ fit_to_window' = FALSE
         /\ zoom' = ImageZoomStep(zoom, IF delta > 0 THEN ImageStepUp ELSE ImageStepDown)
         /\ UNCHANGED <<chk_fit, text_zoom, font_size>>
    ELSE IF obj = "text" /\ ctrl /\ delta # 0
    THEN /\ text_zoom' = TextZoomStep(text_zoom, IF delta > 0 THEN TextStepUp ELSE TextStepDown)
         /\ font_size' = Times(font_size, IF delta > 0 THEN TextStepUp ELSE TextStepDown)
         /\ UNCHANGED <<fit_to_window, chk_fit, zoom>>
    ELSE UNCHANGED <<fit_to_window, chk_fit, zoom, text_zoom, font_size>>

\* a wheel event over the visible widget obj: it passes through the event
\* filters installed on obj
Wheel(obj, delta, ctrl) ==
    /\ obj \in {"text", "image"}
    /\ IF obj = "text" THEN text_visible ELSE image_visible
    /\ IF obj \in FilteredWidgets
       THEN EventFilter(obj, delta, ctrl)
       ELSE UNCHANGED <<fit_to_window, chk_fit, zoom, text_zoom, font_size>>
    /\ last_event' = (IF obj = "text" THEN "wheel_text" ELSE "wheel_image")
    /\ dialogs' = <<>>
    /\ UNCHANGED <<current_path, recents, recent_menu, text_visible, image_visible,
                   text_content, cursor, pix, status, find_edit, find_count>>
    /\ UNCHANGED <<viewport, painted>>

----------------------------------------------------------------------------
(* ImageView.paintEvent *)

\* A scale is an exact fraction [num, den]; the float arithmetic of the code
\* is modelled without its rounding error.
FitScaleLo == [num |-> 1, den |-> 10]
FitScaleHi == [num |-> 6, den |-> 1]

RatLess(a, b) == a.num * b.den < b.num * a.den
RatMin(a, b) == IF RatLess(b, a) THEN b ELSE a
RatMax(a, b) == IF RatLess(a, b) THEN b ELSE a

FitScale_NoUpperClamp(px, v) ==
    RatMax(FitScaleLo, RatMin([num |-> v.w, den |-> px.w],
                              [num |-> v.h, den |-> px.h]))

FitScale_Widest(px, v) ==
    RatMax(FitScaleLo,
           RatMin(FitScaleHi, RatMax([num |-> v.w, den |-> px.w],
                                     [num |-> v.h, den |-> px.h])))

\* sx = avail.width() / pix.width(); sy = avail.height() / pix.height()
\* scale = max(0.1, min(6.0, min(sx, sy)))
FitScale(px, v) ==
    RatMax(FitScaleLo,
           RatMin(FitScaleHi, RatMin([num |-> v.w, den |-> px.w],
                                     [num |-> v.h, den |-> px.h])))

\* scale = self.zoom
ManualScale(z) == [num |-> z, den |-> One]

\* int(d * scale), for d >= 0
Scaled(d, scale) == (d * scale.num) \div scale.den

\* the scale paintEvent uses for a pixmap px
PaintScale(px, fit, z, v) ==
    IF fit /\ px.w > 0 /\ px.h > 0 THEN FitScale(px, v) ELSE ManualScale(z)

\* the QRect(x, y, w, h) of drawPixmap
PaintRect(px, fit, z, v) ==
    LET scale == PaintScale(px, fit, z, v)
        w == Scaled(px.w, scale)
        h == Scaled(px.h, scale)
    IN  [x |-> (v.w - w) \div 2, y |-> (v.h - h) \div 2, w |-> w, h |-> h]

\* paintEvent(event): the toolkit asks the image view to paint itself; the
\* method does not look at the widget's visibility
PaintEvent ==
    /\ painted' = (IF pix = <<>>
                   THEN <<>>
                   ELSE <<PaintRect(pix[1], fit_to_window, zoom, viewport)>>)
    /\ last_event' = "paintEvent"
    /\ dialogs' = <<>>
    /\ UNCHANGED <<current_path, recents, recent_menu, text_visible, image_visible,
                   text_content, cursor, pix, zoom, fit_to_window, chk_fit,
                   text_zoom, font_size, status, find_edit, find_count, viewport>>

\* the user resizes the window: the layout gives the image view the size v
Resize(v) ==
    /\ viewport' = v
    /\ last_event' = "resize"
    /\ dialogs' = <<>>
    /\ UNCHANGED <<current_path, recents, recent_menu, text_visible, image_visible,
                   text_content, cursor, pix, zoom, fit_to_window, chk_fit,
                   text_zoom, font_size, status, find_edit, find_count, painted>>

----------------------------------------------------------------------------
(* Find *)

\* the user edits the find input
EditNeedle(n) ==
    /\ find_edit' = n
    /\ last_event' = "find_edit"
    /\ dialogs' = <<>>
    /\ UNCHANGED <<current_path, recents, recent_menu, text_visible, image_visible,
                   text_content, cursor, pix, zoom, fit_to_window, chk_fit,
                   text_zoom, font_size, status, find_count>>
    /\ UNCHANGED <<viewport, painted>>

\* update_find_count(needle): the label's new text
FindCountLabel(needle) ==
    IF ~text_visible THEN <<>> ELSE <<Count(text_content, needle)>>

\* find_next: Return pressed in the find input
FindNext ==
    /\ IF find_edit = <<>> \/ ~text_visible
       THEN UNCHANGED <<cursor, find_count>>
       ELSE /\ cursor' = CursorAfterFind(text_content, find_edit, cursor)
            /\ find_count' = FindCountLabel(find_edit)
    /\ last_event' = "find_next"
    /\ dialogs' = <<>>
    /\ UNCHANGED <<current_path, recents, recent_menu, text_visible, image_visible,
                   text_content, pix, zoom, fit_to_window, chk_fit, text_zoom,
                   font_size, status, find_edit>>
    /\ UNCHANGED <<viewport, painted>>

----------------------------------------------------------------------------
(* Specifications *)

WheelDeltas == {-120, 0, 120}

\* The whole window with three paths; zoom steps are taken from 100% only.
Next ==
    \/ \E path \in MainPaths, px \in Pixmaps, rd \in Reads : LoadPath(path, px, rd)
    \/ \E i \in 1..(MaxRecents + 2), px \in Pixmaps, rd \in Reads : SelectRecent(i, px, rd)
    \/ ClearRecents
    \/ Clear
    \/ ToggleFit
    \/ \E f \in {ImageStepUp, ImageStepDown} : zoom = One /\ ZoomImage(f)
    \/ ResetZoom
    \/ \E obj \in {"text", "image"}, d \in WheelDeltas, ctrl \in BOOLEAN :
           font_size = One /\ Wheel(obj, d, ctrl)
    \/ \E n \in Needles : EditNeedle(n)
    \/ FindNext

Spec == Init /\ [][Next]_vars

\* The zoom range: every zoom step from every factor, one view at a time
\* (a view is zoomed while the other one's factor is at 100% or at one of its
\* limits), with the loads, Clear, reset and fit toggles in between.
NextZoom ==
    \/ \E path \in MainPaths, px \in Pixmaps, rd \in SmallReads :
           LoadPath(path, px, rd)
    \/ Clear
    \/ ToggleFit
    \/ \E f \in {ImageStepUp, ImageStepDown} :
           /\ text_zoom \in {One, MinTextZoom, MaxTextZoom}
           /\ ZoomImage(f)
    \/ ResetZoom
    \/ \E obj \in {"text", "image"}, d \in WheelDeltas, ctrl \in BOOLEAN :
           /\ zoom \in {One, MinImageZoom, MaxImageZoom}
           /\ d > 0 => font_size < FontCapHi
           /\ d < 0 => font_size > FontCapLo
           /\ Wheel(obj, d, ctrl)

SpecZoom == Init /\ [][NextZoom]_vars

\* the highest id among the listed paths, at least ReopenMax
MaxListedId ==
    LET ids == { recents[i].id : i \in 1..Len(recents) } \cup {ReopenMax}
    IN  CHOOSE m \in ids : \A k \in ids : k <= m

\* The recent list at its capacity: paths 1..ReopenMax are opened (from the
\* dialog or the menu) at any time, the paths above them in ascending order,
\* or from the menu once the list was cleared.
NextRecents ==
    \/ \E path \in ManyPaths, rd \in SmallReads :
           /\ path.id <= ReopenMax \/ path.id = MaxListedId + 1
           /\ LoadPath(path, NullPix, rd)
    \/ \E i \in 1..(MaxRecents + 2), rd \in SmallReads :
           /\ i <= Len(recent_menu)
           /\ recent_menu[i].kind = "path"
           /\ recents = <<>> \/ recent_menu[i].path[1].id <= ReopenMax
           /\ SelectRecent(i, NullPix, rd)
    \/ ClearRecents

SpecRecents == Init /\ [][NextRecents]_vars

\* every content of "a", "b" and newline up to MaxTextLen bytes, and
\* "a\nb\n", "aaaa", "Ab ab", "ab ab ab"
TextBytes ==
    UNION { [1..k -> {97, 98, 10}] : k \in 0..MaxTextLen }
    \cup { <<97, 10, 98, 10>>, <<97, 97, 97, 97>>, <<65, 98, 32, 97, 98>>,
           <<97, 98, 32, 97, 98, 32, 97, 98>> }

TextReads == { ReadError } \cup { ReadOk(b) : b \in TextBytes }

\* "", "ab", "aa"
TextNeedles == { <<>>, <<97, 98>>, <<97, 97>> }

\* The text view: every short content, loaded, searched and cleared, with an
\* image load in between to hide the text.
NextText ==
    \/ \E path \in MainPaths, rd \in TextReads :
           /\ Ext(path) \in IMG_EXTS => rd = ReadError
           /\ LoadPath(path, [w |-> 400, h |-> 300], rd)
    \/ Clear
    \/ \E n \in TextNeedles : EditNeedle(n)
    \/ FindNext

SpecText == Init /\ [][NextText]_vars

\* The image view: pixmaps of several sizes painted in two viewports, fitted
\* or at a manual zoom one step from 100%.
NextPaint ==
    \/ \E px \in PaintPixmaps \cup { NullPix } :
           LoadPath([id |-> 1, suffix |-> <<46, 74, 80, 71>>], px, ReadError)
    \/ LoadPath([id |-> 2, suffix |-> <<>>], NullPix, ReadOk(<<97, 98>>))
    \/ Clear
    \/ ToggleFit
    \/ \E f \in {ImageStepUp, ImageStepDown} : zoom = One /\ ZoomImage(f)
    \/ ResetZoom
    \/ \E v \in Viewports : Resize(v)
    \/ PaintEvent

SpecPaint == Init /\ [][NextPaint]_vars

----------------------------------------------------------------------------
(* Claims *)

PathOf(i) == [id |-> i, suffix |-> <<46, 116, 120, 116>>]

NoDuplicates(rs) == \A i, j \in 1..Len(rs) : i # j => rs[i] # rs[j]

\* the paths of the menu's path entries, top to bottom
RECURSIVE MenuPaths(_)
MenuPaths(menu) ==
    IF menu = <<>> THEN <<>>
    ELSE (IF Head(menu).kind = "path" THEN Head(menu).path ELSE <<>>)
         \o MenuPaths(Tail(menu))

\* C1: the image view and the text view are never both visible.
C1_NeverBothVisible == ~(image_visible /\ text_visible)

\* C1 witness: an image was loaded over a text that had been shown.
C1_Witness == image_visible /\ ~text_visible /\ text_content # <<>>

\* C2: the current path changes only on a successful load (to the loaded path)
\* or on Clear (to none); a failed load leaves it as it was.
C2_PathKeptOnFailure ==
    [][ /\ \A path \in MainPaths, px \in Pixmaps, rd \in Reads :
              (LoadPath(path, px, rd) /\ LoadFails(path, px, rd))
                  => current_path' = current_path
        /\ current_path' # current_path =>
              \/ Clear /\ current_path' = <<>>
              \/ \E path \in MainPaths, px \in Pixmaps, rd \in Reads :
                     /\ LoadPath(path, px, rd)
                     /\ ~LoadFails(path, px, rd)
                     /\ current_path' = <<path>> ]_vars

\* C3: a failed load raises exactly one error notification with a non-empty
\* message and leaves the visible view, the text, the bitmap, the zooms, the
\* fit flag, the status message, the recent list and the recent menu unchanged.
C3_FailedLoadFrame ==
    [][ \A path \in MainPaths, px \in Pixmaps, rd \in Reads :
            (LoadPath(path, px, rd) /\ LoadFails(path, px, rd)) =>
                /\ Len(dialogs') = 1
                /\ dialogs'[1] # ""
                /\ UNCHANGED <<text_visible, image_visible, text_content, pix, zoom,
                               fit_to_window, text_zoom, status, recents,
                               recent_menu>> ]_vars

\* C3 witness: an error dialog is up over a loaded image, with a status
\* message and a recent list to keep.
C3_Witness ==
    /\ dialogs = <<DecodeErrorText>>
    /\ image_visible
    /\ status # <<>>
    /\ recents # <<>>

\* C4: the recent list holds at most 10 paths, none of them twice.
C4_RecentsBounded == Len(recents) <= 10 /\ NoDuplicates(recents)

\* C4 witness: the list is full and the first path opened has been evicted.
C4_Witness ==
    /\ Len(recents) = 10
    /\ ~InSeq(recents, PathOf(1))
    /\ InSeq(recents, PathOf(NPaths))

\* C5: after a successful load of p the list ends with p, the other entries
\* keep their relative order, and only when the list would exceed 10 is an
\* entry dropped, the first one; A, B, A gives [B, A]; loading the last path
\* again changes nothing.
C5_MoveToEnd ==
    [][ \A path \in ManyPaths \cap {current_path'[i] : i \in 1..Len(current_path')},
           rd \in SmallReads :
            (LoadPath(path, NullPix, rd) /\ ~LoadFails(path, NullPix, rd)) =>
                LET Other(q) == q # path
                    others == SelectSeq(recents, Other)
                    kept == IF Len(others) + 1 > 10 THEN Tail(others) ELSE others
                IN  /\ recents' = Append(kept, path)
                    /\ recents = <<PathOf(1), PathOf(2)>> /\ path = PathOf(1)
                           => recents' = <<PathOf(2), PathOf(1)>>
                    /\ recents # <<>> /\ recents[Len(recents)] = path
                           => recents' = recents ]_vars

\* C5 witness: eleven distinct paths were loaded and the last ten are kept.
C5_Witness == recents = [i \in 1..10 |-> PathOf(i + 1)]

\* C6: the recent menu shows the list's paths most recent first followed by
\* the clear action when the list is non-empty, and the "(empty)"
\* placeholder and no path when it is empty.
C6_MenuReflectsList ==
    /\ recents # <<>> =>
           /\ MenuPaths(recent_menu) = Reverse(recents)
           /\ recent_menu[Len(recent_menu)] = ClearEntry
           /\ \A i \in 1..Len(recent_menu) : recent_menu[i] # PlaceholderEntry
    /\ recents = <<>> =>
           /\ MenuPaths(recent_menu) = <<>>
           /\ \E i \in 1..Len(recent_menu) : recent_menu[i] = PlaceholderEntry

\* C7: the image zoom stays within [0.1, 6.0] and the text zoom within
\* [0.6, 3.0].
C7_ZoomInRange ==
    /\ zoom >= 10 /\ zoom <= 600
    /\ text_zoom >= 60 /\ text_zoom <= 300

\* C7 witness: the image zoom was stepped down onto its lower limit, then
\* the text zoom up onto its upper limit and one tick beyond.
C7_Witness == zoom = 10 /\ text_zoom = 300 /\ font_size > 300

\* C8: the displayed font size is the base size times the text zoom factor
\* and so stays within [0.6, 3.0] times the base size.
C8_FontFollowsTextZoom ==
    /\ font_size = text_zoom
    /\ font_size >= 60 /\ font_size <= 300

\* C9: with the image visible, a wheel tick with non-zero delta over the
\* image view disables fit-to-window and multiplies the image zoom by 1.1 or
\* 1/1.1, clamped to [0.1, 6.0].
C9_ImageWheelZooms ==
    [][ \A d \in WheelDeltas \ {0}, ctrl \in BOOLEAN :
            (image_visible /\ Wheel("image", d, ctrl)) =>
                /\ fit_to_window' = FALSE
                /\ zoom' = Clamp(10, 600,
                                 Times(zoom, IF d > 0 THEN ImageStepUp
                                                      ELSE ImageStepDown)) ]_vars

\* C10: while the text view is visible the match count shown is the number
\* of non-overlapping occurrences of the needle in the displayed text.
C10_CountFollowsText ==
    (text_visible /\ find_edit # <<>>)
        => find_count = <<Count(text_content, find_edit)>>

\* the 0-based starts of the occurrences of needle in text
Occurrences(text, needle) ==
    { j \in 0..Len(text) : MatchAt(text, needle, j + 1) }

Least(S) == CHOOSE j \in S : \A k \in S : j <= k

\* C11: with the text visible and a non-empty needle that occurs in the
\* content, find_next selects the first occurrence at or after the end of
\* the selection, and the first occurrence of all when there is none; with
\* an empty needle or a hidden text view it leaves the cursor alone.
C11_FindCycles ==
    [][ FindNext =>
            IF find_edit = <<>> \/ ~text_visible
            THEN cursor' = cursor
            ELSE LET occ == Occurrences(text_content, find_edit)
                     ahead == { j \in occ : j >= SelectionEnd(cursor) }
                     hit == IF ahead # {} THEN Least(ahead) ELSE Least(occ)
                 IN  occ # {} =>
                         cursor' = [anchor |-> hit,
                                    position |-> hit + Len(find_edit)] ]_vars

\* C14: after a successful text load the status reports the number of
\* newline characters plus one for a non-empty content and 0 for an empty
\* one: "" gives 0, "a\nb" gives 2, "a\nb\n" gives 3.
C14_LineCount ==
    (last_event = "load_path" /\ dialogs = <<>> /\ text_visible) =>
        /\ status # <<>>
        /\ status[1].what = "lines"
        /\ status[1].n =
               (IF text_content = <<>> THEN 0
                ELSE Cardinality({ i \in 1..Len(text_content) :
                                       text_content[i] = 10 }) + 1)
        /\ text_content = <<>> => status[1].n = 0
        /\ text_content = <<97, 10, 98>> => status[1].n = 2
        /\ text_content = <<97, 10, 98, 10>> => status[1].n = 3

\* C14 witness: "a\nb\n" was loaded and the status reports 3 lines.
C14_Witness ==
    /\ last_event = "load_path"
    /\ dialogs = <<>>
    /\ text_content = <<97, 10, 98, 10>>
    /\ status = <<[path |-> [id |-> 2, suffix |-> <<>>], what |-> "lines",
                   n |-> 3, m |-> 0]>>

\* C12: Clear drops the current path, empties the text view, leaves the image
\* view without a bitmap, hides both views and clears the status.
C12_ClearBlanksBoth ==
    [][ last_event' = "clear" =>
            /\ current_path' = <<>>
            /\ text_content' = <<>>
            /\ pix' = <<>>
            /\ ~text_visible'
            /\ ~image_visible'
            /\ status' = <<>> ]_vars

\* C13: a successful load of a path with an image extension leaves exactly
\* the image view visible at zoom 1.0; a successful load of any other path
\* leaves exactly the text view visible, showing the decoded content, with
\* the text zoom unchanged; the views become both hidden only by Clear.
C13_LoadShowsOneView ==
    [][ /\ (last_event' = "load_path" /\ dialogs' = <<>>) =>
               IF Ext(current_path'[1]) \in IMG_EXTS
               THEN /\ image_visible'
                    /\ ~text_visible'
                    /\ zoom' = One
               ELSE /\ text_visible'
                    /\ ~image_visible'
                    /\ text_zoom' = text_zoom
                    /\ \E rd \in Reads :
                           rd.ok /\ text_content' = Decode(rd.bytes)
        /\ ((text_visible \/ image_visible)
                /\ ~text_visible' /\ ~image_visible') =>
               last_event' = "clear" ]_vars

\* C13 witness: an image was loaded over a shown text after the image zoom
\* had been changed, and the zoom is 1.0 again.
C13_Witness ==
    /\ last_event = "load_path"
    /\ dialogs = <<>>
    /\ image_visible
    /\ ~text_visible
    /\ text_content # <<>>
    /\ zoom = One
    /\ status # <<>>
    /\ status[1].what = "px"

\* C15: every explicit zoom action disables fit-to-window and applies its
\* step or reset to the image zoom, whichever view is visible.
C15_ZoomActsInAnyState ==
    [][ /\ \A f \in {ImageStepUp, ImageStepDown} :
               (last_event' = "zoom_image" /\ ZoomImage(f)) =>
                   /\ ~fit_to_window'
                   /\ zoom' = Clamp(MinImageZoom, MaxImageZoom, Times(zoom, f))
        /\ last_event' = "reset_zoom" =>
               /\ ~fit_to_window'
               /\ zoom' = One ]_vars

\* C15, amended: an explicit zoom action invoked while the image view is
\* visible disables fit-to-window and applies its step or reset to the image
\* zoom; invoked while the image view is hidden, Zoom + and Zoom - change
\* nothing and 100% resets the text zoom, and fit-to-window and the image
\* zoom stay as they are.
C15_ZoomActsOnVisibleImage ==
    [][ /\ \A f \in {ImageStepUp, ImageStepDown} :
               (last_event' = "zoom_image" /\ ZoomImage(f)) =>
                   IF image_visible
                   THEN /\ ~fit_to_window'
                        /\ zoom' = Clamp(MinImageZoom, MaxImageZoom,
                                         Times(zoom, f))
                   ELSE UNCHANGED <<fit_to_window, zoom, text_zoom>>
        /\ last_event' = "reset_zoom" =>
               IF image_visible
               THEN /\ ~fit_to_window'
                    /\ zoom' = One
               ELSE /\ UNCHANGED <<fit_to_window, zoom>>
                    /\ text_zoom' = One ]_vars

\* C15 witness: Zoom + on a visible image has reached the upper clamp with
\* fit-to-window off.
C15_Witness ==
    /\ last_event = "zoom_image"
    /\ image_visible
    /\ zoom = MaxImageZoom
    /\ ~fit_to_window

\* C16: toggling "Fit to Window" changes the fit flag (and its box) and
\* nothing else, the stored image zoom in particular, so that with the box
\* unchecked again the image is painted at the manual zoom it had.
C16_ToggleKeepsZoom ==
    [][ last_event' = "toggle_fit" =>
            /\ fit_to_window' = ~fit_to_window
            /\ zoom' = zoom
            /\ UNCHANGED <<current_path, recents, recent_menu, text_visible,
                           image_visible, text_content, cursor, pix, text_zoom,
                           font_size, status, find_edit, find_count, viewport>>
            /\ (~fit_to_window' /\ pix # <<>>) =>
                   PaintScale(pix[1], fit_to_window', zoom', viewport')
                       = [num |-> zoom, den |-> One] ]_vars

\* C16 witness: the box was unchecked on a visible image whose manual zoom is
\* not 100%.
C16_Witness ==
    /\ last_event = "toggle_fit"
    /\ image_visible
    /\ ~fit_to_window
    /\ zoom # One

\* the scale the fit mode is to use for a bw x bh bitmap in a vw x vh
\* viewport, as <<numerator, denominator>>
ClampedFit(bw, bh, vw, vh) ==
    LET m == IF vw * bh <= vh * bw THEN <<vw, bw>> ELSE <<vh, bh>>
    IN  IF 10 * m[1] < m[2] THEN <<1, 10>>
        ELSE IF m[1] > 6 * m[2] THEN <<6, 1>>
        ELSE m

\* C17: in fit mode paintEvent draws the bitmap scaled by min(vw/bw, vh/bh)
\* clamped to [0.1, 6.0], in a rectangle of floor(bw * scale) by
\* floor(bh * scale) at x = (vw - w) div 2, y = (vh - h) div 2: a 400x300
\* bitmap in 800x600 is drawn 800x600 at (0, 0), a 1600x300 one 800x150 at
\* y = 225; without a bitmap nothing is drawn.
C17_FitRendering ==
    last_event = "paintEvent" =>
        IF pix = <<>>
        THEN painted = <<>>
        ELSE fit_to_window =>
            /\ painted # <<>>
            /\ LET r == painted[1]
                   b == pix[1]
                   v == viewport
                   s == ClampedFit(b.w, b.h, v.w, v.h)
               IN  /\ r.w * s[2] <= b.w * s[1]
                   /\ b.w * s[1] < (r.w + 1) * s[2]
                   /\ r.h * s[2] <= b.h * s[1]
                   /\ b.h * s[1] < (r.h + 1) * s[2]
                   /\ 2 * r.x <= v.w - r.w
                   /\ v.w - r.w < 2 * r.x + 2
                   /\ 2 * r.y <= v.h - r.h
                   /\ v.h - r.h < 2 * r.y + 2
            /\ (pix[1] = [w |-> 400, h |-> 300]
                    /\ viewport = [w |-> 800, h |-> 600]) =>
                   painted[1] = [x |-> 0, y |-> 0, w |-> 800, h |-> 600]
            /\ (pix[1] = [w |-> 1600, h |-> 300]
                    /\ viewport = [w |-> 800, h |-> 600]) =>
                   painted[1] = [x |-> 0, y |-> 225, w |-> 800, h |-> 150]

\* C17 witness: a 50x50 bitmap painted in fit mode in 800x600, at the upper
\* clamp 6.0.
C17_Witness ==
    /\ last_event = "paintEvent"
    /\ fit_to_window
    /\ pix = <<[w |-> 50, h |-> 50]>>
    /\ viewport = [w |-> 800, h |-> 600]
    /\ painted = <<[x |-> 250, y |-> 150, w |-> 300, h |-> 300]>>

\* C18: the "Fit to Window" box is checked exactly when the image view's
\* fit_to_window is true.
C18_BoxMatchesFit ==
    chk_fit = fit_to_window

\* C18 witness: a zoom action on a visible image has left the box unchecked
\* and fit-to-window off.
C18_Witness ==
    /\ last_event = "zoom_image"
    /\ image_visible
    /\ zoom # One
    /\ ~chk_fit
    /\ ~fit_to_window

====
